---------------------------- MODULE Spec2Model ----------------------------
(***************************************************************************)
(* A model of the tax_engine crate: the schedule model (TaxSchedule::new), *)
(* the entity (TaxEntity), the progressive calculator                      *)
(* (IncomeTaxCalculator::calculate_tax), the in-memory schedule cache      *)
(* (MemoryCache), the fallback fetch and the bracket extraction of the US  *)
(* federal scraper, and main of examples/multi_jurisdiction.rs.            *)
(*                                                                         *)
(* Decimal amounts are whole currency units (integers).  A rate is kept as *)
(* an integer number of percent, and a tax amount as an integer number of  *)
(* hundredths of a unit, so that bracket_income * rate is exact, as it is  *)
(* with rust_decimal: the tax 17500 is the value 1750000 here.             *)
(* Option<T> is a sequence of length at most one: None is <<>> and Some(x) *)
(* is <<x>>.                                                               *)
(***************************************************************************)
EXTENDS Integers, Sequences, FiniteSets

VARIABLES
    \* ---- calculator side
    entity,            \* the TaxEntity: entity_type, income, deductions, tax_year
    brackets_in,       \* the Vec<TaxBracket> that was passed to TaxSchedule::new
    schedule,          \* Option<TaxSchedule>: <<>> until TaxSchedule::new has run
    calc_pc,           \* position inside calculate_tax: "idle", "loop", "done"
    idx,               \* index of the next bracket of `for bracket in &schedule.brackets`
    remaining_income,  \* local of calculate_tax
    total_tax,         \* local of calculate_tax (hundredths)
    examined,          \* number of brackets the loop has looked at
    taxed,             \* the bracket incomes the loop has taxed: bracket index and income
    calc_result        \* Option<Result<Decimal, TaxError>> returned by calculate_tax

calcVars == <<entity, brackets_in, schedule, calc_pc, idx, remaining_income,
              total_tax, examined, taxed, calc_result>>

VARIABLES
    \* ---- MemoryCache side
    ttl,               \* MemoryCache.ttl, fixed by MemoryCache::new
    now,               \* the monotonic clock behind Instant::now() and elapsed()
    data,              \* the HashMap<CacheKey, CacheEntry>: key -> Option<CacheEntry>
    readers,           \* tasks holding the RwLock's read guard
    writer,            \* Option<task> holding the RwLock's write guard
    task,              \* per task: its position in get/set and the locals it holds
    last_set           \* per key: the latest completed set (its arguments and timestamp, and
                       \* whether it replaced an expired entry holding another schedule)

cacheVars == <<ttl, now, data, readers, writer, task, last_set>>

VARIABLES
    \* ---- USFederalScraper side
    request,           \* Option of the arguments of the fetch_rates call in progress
    fetch_pc,          \* "idle", "loop" (inside fetch_rates_from_irs), "done", "panicked"
    urls,              \* the urls vector of fetch_rates_from_irs
    url_idx,           \* index of the next candidate of `for url in &urls`
    last_error,        \* local of fetch_rates_from_irs
    attempts,          \* every request sent so far: its url and what came back
    content,           \* Option of the document fetch_rates_from_irs returned
    fetch_result       \* Option<Result<TaxSchedule, TaxError>> returned by fetch_rates

fetchVars == <<request, fetch_pc, urls, url_idx, last_error, attempts,
               content, fetch_result>>

VARIABLES
    \* ---- main of examples/multi_jurisdiction.rs
    main_pc,           \* "entity_new", "deducted", "fetching", "calculating", "returned"
    main_result,       \* Option<Result<(), error>> returned by main
    cache_ops          \* the get and set calls main has made on `cache`, in order

mainVars == <<main_pc, main_result, cache_ops>>

VARIABLES
    \* ---- the loop of parse_tax_brackets, one element at a time
    element,           \* Option of the text of the element the loop is at
    pushed             \* Option of the brackets the loop pushed for that element

parseVars == <<element, pushed>>

vars == <<calcVars, cacheVars, fetchVars, mainVars, parseVars>>

-----------------------------------------------------------------------------
(* Bounds and input domains *)

MaxBrackets == 3
MaxDeductions == 1
MaxTime == 2
MaxTtl == 2
MaxFragments == 2
MaxTokens == 5

Years == {2023, 2024}
ScheduleYears == {2024}
Incomes == {0, 50000, 100000}
DeductionAmounts == {10000, 50000}
BoundValues == {0, 50000}
Rates == {15, 25}

None == <<>>
Some(x) == <<x>>

Min(a, b) == IF a <= b THEN a ELSE b
Max(a, b) == IF a >= b THEN a ELSE b

-----------------------------------------------------------------------------
(* models/bracket.rs *)

TaxBracket == [lower_bound : BoundValues,
               upper_bound : {None} \cup {Some(u) : u \in BoundValues},
               rate : Rates]

\* Every Vec<TaxBracket> of at most MaxBrackets elements.
BracketLists == UNION {[1..n -> TaxBracket] : n \in 0..MaxBrackets}

\* The position at which sort_by (a stable sort) places b in the sorted
\* sequence s: after every element whose lower_bound is <= b's.
RECURSIVE InsertSorted(_, _)
InsertSorted(s, b) ==
    IF s = <<>> THEN <<b>>
    ELSE IF s[Len(s)].lower_bound <= b.lower_bound
         THEN Append(s, b)
         ELSE Append(InsertSorted(SubSeq(s, 1, Len(s) - 1), b), s[Len(s)])

\* A plausible slip: comparing the other way round (descending order).
RECURSIVE InsertSortedDescending(_, _)
InsertSortedDescending(s, b) ==
    IF s = <<>> THEN <<b>>
    ELSE IF s[Len(s)].lower_bound >= b.lower_bound
         THEN Append(s, b)
         ELSE Append(InsertSortedDescending(SubSeq(s, 1, Len(s) - 1), b), s[Len(s)])

RECURSIVE SortDescending(_)
SortDescending(s) ==
    IF s = <<>> THEN <<>>
    ELSE InsertSortedDescending(SortDescending(SubSeq(s, 1, Len(s) - 1)), s[Len(s)])

\* brackets.sort_by(|a, b| a.lower_bound.cmp(&b.lower_bound)): stable.
RECURSIVE SortByLowerBound(_)
SortByLowerBound(s) ==
    IF s = <<>> THEN <<>>
    ELSE InsertSorted(SortByLowerBound(SubSeq(s, 1, Len(s) - 1)), s[Len(s)])

\* TaxSchedule::new
TaxScheduleNew(tax_year, brackets) ==
    [tax_year |-> tax_year, brackets |-> SortByLowerBound(brackets)]

-----------------------------------------------------------------------------
(* models/entity.rs *)

\* TaxEntity::new
TaxEntityNew(entity_type, income, tax_year) ==
    [entity_type |-> entity_type, income |-> income,
     deductions |-> <<>>, tax_year |-> tax_year]

\* TaxEntity::total_deductions: fold(ZERO, |acc, d| acc + d.amount)
RECURSIVE FoldAmounts(_, _)
FoldAmounts(acc, ds) ==
    IF ds = <<>> THEN acc
    ELSE FoldAmounts(acc + ds[1].amount, SubSeq(ds, 2, Len(ds)))

total_deductions(e) == FoldAmounts(0, e.deductions)

\* TaxEntity::taxable_income
taxable_income(e) == e.income - total_deductions(e)

-----------------------------------------------------------------------------
(* calculators/income_tax.rs *)

Ok(v) == [kind |-> "Ok", value |-> v]
Err(e) == [kind |-> "Err", value |-> e]

\* A plausible slip: using only one direction of the comparison.
YearsDifferOneWay(e, s) == e.tax_year > s.tax_year

\* if entity.tax_year != schedule.tax_year
YearsDiffer(e, s) == e.tax_year # s.tax_year

\* A plausible slip: capping by the upper bound itself, not by the width.
BracketIncomeByUpper(bracket, remaining) ==
    IF bracket.upper_bound # None
    THEN Min(remaining, bracket.upper_bound[1])
    ELSE remaining

\* A plausible slip: an unbounded bracket taxing only what lies above its
\* lower bound.
BracketIncomeAboveFloor(bracket, remaining) ==
    IF bracket.upper_bound # None
    THEN Min(remaining, bracket.upper_bound[1] - bracket.lower_bound)
    ELSE Max(0, Min(remaining, remaining - bracket.lower_bound))

\* A plausible slip: taking the whole width, not the minimum.
BracketIncomeUncapped(bracket, remaining) ==
    IF bracket.upper_bound # None
    THEN bracket.upper_bound[1] - bracket.lower_bound
    ELSE remaining

\* The match of lines 51-59, on the path that does not break.
BracketIncome(bracket, remaining) ==
    IF bracket.upper_bound # None
    THEN Min(remaining, bracket.upper_bound[1] - bracket.lower_bound)
    ELSE remaining

\* A plausible slip: dropping the positivity test.
ContributesAlways(bracket_income) == TRUE

\* if bracket_income > Decimal::ZERO
Contributes(bracket_income) == bracket_income > 0

\* The break of lines 53-55.
Breaks(bracket, remaining) == bracket.upper_bound # None /\ remaining <= 0

-----------------------------------------------------------------------------
(* Operations of the calculator side *)

\* entity.add_deduction(amount, category)
AddDeduction ==
    /\ calc_pc = "idle"
    /\ Len(entity.deductions) < MaxDeductions
    /\ \E amount \in DeductionAmounts, category \in {"Personal"} :
          entity' = [entity EXCEPT !.deductions =
                        Append(@, [amount |-> amount, category |-> category])]
    /\ UNCHANGED <<brackets_in, schedule, calc_pc, idx, remaining_income,
                   total_tax, examined, taxed, calc_result>>
    /\ UNCHANGED <<cacheVars, fetchVars, mainVars, parseVars>>

\* TaxSchedule::new(tax_year, brackets), with the vec![...] the caller hands
\* over; brackets_in keeps that argument as it was given.
NewSchedule ==
    /\ schedule = None
    /\ \E tax_year \in ScheduleYears, brackets \in BracketLists :
          /\ brackets_in' = brackets
          /\ schedule' = Some(TaxScheduleNew(tax_year, brackets))
    /\ UNCHANGED <<entity, calc_pc, idx, remaining_income,
                   total_tax, examined, taxed, calc_result>>
    /\ UNCHANGED <<cacheVars, fetchVars, mainVars, parseVars>>

\* calculate_tax, lines 41-48: the year check and the locals.
CalcStart ==
    /\ calc_pc = "idle"
    /\ schedule # None
    /\ IF YearsDiffer(entity, schedule[1])
       THEN /\ calc_result' = Some(Err("YearMismatch"))
            /\ calc_pc' = "done"
            /\ UNCHANGED <<remaining_income, total_tax>>
       ELSE /\ remaining_income' = taxable_income(entity)
            /\ total_tax' = 0
            /\ calc_pc' = "loop"
            /\ UNCHANGED calc_result
    /\ UNCHANGED <<entity, brackets_in, schedule, idx, examined, taxed>>
    /\ UNCHANGED <<cacheVars, fetchVars, mainVars, parseVars>>

\* One iteration of the for loop, lines 50-65; a break leaves the loop and
\* the function returns Ok(total_tax) (line 67).
CalcStep ==
    /\ calc_pc = "loop"
    /\ idx <= Len(schedule[1].brackets)
    /\ LET bracket == schedule[1].brackets[idx]
           bracket_income == BracketIncome(bracket, remaining_income)
       IN  /\ examined' = examined + 1
           /\ IF Breaks(bracket, remaining_income)
              THEN /\ calc_pc' = "done"
                   /\ calc_result' = Some(Ok(total_tax))
                   /\ UNCHANGED <<idx, remaining_income, total_tax, taxed>>
              ELSE /\ idx' = idx + 1
                   /\ IF Contributes(bracket_income)
                      THEN /\ total_tax' = total_tax + bracket_income * bracket.rate
                           /\ remaining_income' = remaining_income - bracket_income
                           /\ taxed' = Append(taxed, [index |-> idx,
                                                      income |-> bracket_income])
                      ELSE UNCHANGED <<total_tax, remaining_income, taxed>>
                   /\ UNCHANGED <<calc_pc, calc_result>>
    /\ UNCHANGED <<entity, brackets_in, schedule>>
    /\ UNCHANGED <<cacheVars, fetchVars, mainVars, parseVars>>

\* The loop is exhausted: Ok(total_tax), line 67.
CalcReturn ==
    /\ calc_pc = "loop"
    /\ idx > Len(schedule[1].brackets)
    /\ calc_pc' = "done"
    /\ calc_result' = Some(Ok(total_tax))
    /\ UNCHANGED <<entity, brackets_in, schedule, idx, remaining_income,
                   total_tax, examined, taxed>>
    /\ UNCHANGED <<cacheVars, fetchVars, mainVars, parseVars>>

InitCalc ==
    /\ \E income \in Incomes, tax_year \in Years :
          entity = TaxEntityNew("Individual", income, tax_year)
    /\ brackets_in = <<>>
    /\ schedule = None
    /\ calc_pc = "idle"
    /\ idx = 1
    /\ remaining_income = 0
    /\ total_tax = 0
    /\ examined = 0
    /\ taxed = <<>>
    /\ calc_result = None

NextCalc ==
    \/ AddDeduction
    \/ NewSchedule
    \/ CalcStart
    \/ CalcStep
    \/ CalcReturn

-----------------------------------------------------------------------------
(* data/cache/memory.rs *)

Tasks == {"t1", "t2"}

\* A plausible slip: a key that leaves the entity type out.
CacheKeyWithoutEntityType(jurisdiction, entity_type, tax_year) ==
    [jurisdiction |-> jurisdiction, entity_type |-> "Individual",
     tax_year |-> tax_year]

\* CacheKey: (jurisdiction, entity_type, tax_year), compared structurally.
CacheKeyNew(jurisdiction, entity_type, tax_year) ==
    [jurisdiction |-> jurisdiction, entity_type |-> entity_type,
     tax_year |-> tax_year]

\* The (jurisdiction, entity_type, tax_year) concurrent callers ask for.
CacheRequests == {<<<<"Federal", "USA">>, "Individual", y>> : y \in Years}

\* The same, and requests that differ from one of them in one component.
ProbeRequests ==
    CacheRequests \cup {<<<<"Federal", "Canada">>, "Individual", 2024>>,
                        <<<<"Federal", "USA">>, "Corporation", 2024>>}

KeyOf(r) == CacheKeyNew(r[1], r[2], r[3])

CacheKeys == {KeyOf(r) : r \in CacheRequests}

\* Every key the HashMap is asked about.
AllCacheKeys == {KeyOf(r) : r \in ProbeRequests}

\* The schedules callers store: the one of the unit tests and another one.
CachedSchedules ==
    {TaxScheduleNew(2024, <<[lower_bound |-> 0, upper_bound |-> Some(50000),
                             rate |-> 10]>>),
     TaxScheduleNew(2024, <<[lower_bound |-> 0, upper_bound |-> None,
                             rate |-> 25]>>)}

\* CacheEntry { schedule, timestamp }
CacheEntryNew(s, timestamp) == [schedule |-> s, timestamp |-> timestamp]

\* entry.timestamp.elapsed() at clock reading t
Elapsed(entry, t) == t - entry.timestamp

\* A plausible slip: <= in place of <.
IsFreshInclusive(entry, t, d) == Elapsed(entry, t) <= d

\* entry.timestamp.elapsed() < self.ttl
IsFresh(entry, t, d) == Elapsed(entry, t) < d

\* The body of get under the read guard (lines 78-83) at clock reading t.
Lookup(cache, key, t, d) ==
    IF cache[key] # None /\ IsFresh(cache[key][1], t, d)
    THEN Some(cache[key][1].schedule)
    ELSE None

\* A plausible slip: or_insert semantics, keeping an entry that is present.
InsertIfAbsent(cache, key, entry) ==
    IF cache[key] = None THEN [cache EXCEPT ![key] = Some(entry)] ELSE cache

\* cache.insert(key, entry)
Insert(cache, key, entry) == [cache EXCEPT ![key] = Some(entry)]

IdleTask == [pc |-> "idle", args |-> None, key |-> None, entry |-> None,
             ret |-> None, clock |-> 0]

\* Time passes.
Tick ==
    /\ now < MaxTime
    /\ now' = now + 1
    /\ UNCHANGED <<ttl, data, readers, writer, task, last_set>>
    /\ UNCHANGED <<calcVars, fetchVars, mainVars, parseVars>>

\* get, lines 71-83: the key is built, the read guard is acquired
\* (self.data.read().await completes only while no writer holds the lock),
\* the entry is looked up and its age is read off the clock.
GetReadOf(t, r) ==
    /\ task[t].pc = "idle"
    /\ writer = None
    /\ task' = [task EXCEPT ![t] =
                   [pc |-> "get_checked", args |-> Some(r),
                    key |-> Some(KeyOf(r)), entry |-> None,
                    ret |-> Some(Lookup(data, KeyOf(r), now, ttl)),
                    clock |-> now]]
    /\ readers' = readers \cup {t}
    /\ UNCHANGED <<ttl, now, data, writer, last_set>>
    /\ UNCHANGED <<calcVars, fetchVars, mainVars, parseVars>>

GetRead(t) == \E r \in CacheRequests : GetReadOf(t, r)

\* get returns: the read guard is dropped.
GetReturn(t) ==
    /\ task[t].pc = "get_checked"
    /\ readers' = readers \ {t}
    /\ task' = [task EXCEPT ![t] = IdleTask]
    /\ UNCHANGED <<ttl, now, data, writer, last_set>>
    /\ UNCHANGED <<calcVars, fetchVars, mainVars, parseVars>>

\* set, lines 93-102: the key and the entry are built, the entry stamped
\* with Instant::now(), before the write lock is asked for.
SetStampOf(t, r, s) ==
    /\ task[t].pc = "idle"
    /\ task' = [task EXCEPT ![t] =
                   [pc |-> "set_stamped", args |-> Some(r),
                    key |-> Some(KeyOf(r)),
                    entry |-> Some(CacheEntryNew(s, now)),
                    ret |-> None, clock |-> 0]]
    /\ UNCHANGED <<ttl, now, data, readers, writer, last_set>>
    /\ UNCHANGED <<calcVars, fetchVars, mainVars, parseVars>>

SetStamp(t) == \E r \in CacheRequests, s \in CachedSchedules : SetStampOf(t, r, s)

\* A plausible slip: a lock that keeps writers from each other only.
WriteAdmittedAmongReaders(w, r) == w = None

\* RwLock::write: granted only while nobody holds the lock.
WriteAdmitted(w, r) == w = None /\ r = {}

\* set, line 104: self.data.write().await completes only while nobody holds
\* the lock.
SetLock(t) ==
    /\ task[t].pc = "set_stamped"
    /\ WriteAdmitted(writer, readers)
    /\ writer' = Some(t)
    /\ task' = [task EXCEPT ![t].pc = "set_locked"]
    /\ UNCHANGED <<ttl, now, data, readers, last_set>>
    /\ UNCHANGED <<calcVars, fetchVars, mainVars, parseVars>>

\* set, lines 105-106: the insert, the guard dropped, Ok(()) returned.
SetInsert(t) ==
    /\ task[t].pc = "set_locked"
    /\ LET key == task[t].key[1]
           entry == task[t].entry[1]
       IN  /\ data' = Insert(data, key, entry)
           /\ last_set' = [last_set EXCEPT ![key] =
                 Some([args |-> task[t].args[1],
                       schedule |-> entry.schedule,
                       timestamp |-> entry.timestamp,
                       over_expired |->
                           /\ data[key] # None
                           /\ data[key][1].schedule # entry.schedule
                           /\ now - data[key][1].timestamp >= ttl])]
    /\ writer' = None
    /\ task' = [task EXCEPT ![t] = IdleTask]
    /\ UNCHANGED <<ttl, now, readers>>
    /\ UNCHANGED <<calcVars, fetchVars, mainVars, parseVars>>

\* MemoryCache::new(ttl) for a ttl of D
InitCacheWith(D) ==
    /\ ttl \in D
    /\ now = 0
    /\ data = [k \in AllCacheKeys |-> None]
    /\ readers = {}
    /\ writer = None
    /\ task = [t \in Tasks |-> IdleTask]
    /\ last_set = [k \in AllCacheKeys |-> None]

InitCache == InitCacheWith(0..MaxTtl)

\* The cache side at rest: an empty cache nobody is using.
CacheAtRest == InitCacheWith({0})

\* The calculator side at rest: an entity, no schedule, no calculation.
CalcAtRest ==
    /\ entity = TaxEntityNew("Individual", 0, 2024)
    /\ brackets_in = <<>>
    /\ schedule = None
    /\ calc_pc = "idle"
    /\ idx = 1
    /\ remaining_income = 0
    /\ total_tax = 0
    /\ examined = 0
    /\ taxed = <<>>
    /\ calc_result = None

NextCache ==
    \/ Tick
    \/ \E t \in Tasks : GetRead(t)
    \/ \E t \in Tasks : GetReturn(t)
    \/ \E t \in Tasks : SetStamp(t)
    \/ \E t \in Tasks : SetLock(t)
    \/ \E t \in Tasks : SetInsert(t)

\* One caller at a time, asking about every probe request.
Caller == "t1"
ProbeSchedule == CHOOSE s \in CachedSchedules : s.brackets[1].upper_bound = None

GetProbe == \E r \in ProbeRequests : GetReadOf(Caller, r)
GetProbeReturn == GetReturn(Caller)
SetProbe == \E r \in ProbeRequests : SetStampOf(Caller, r, ProbeSchedule)
SetProbeLock == SetLock(Caller)
SetProbeInsert == SetInsert(Caller)

NextCacheKeys ==
    \/ Tick
    \/ GetProbe
    \/ GetProbeReturn
    \/ SetProbe
    \/ SetProbeLock
    \/ SetProbeInsert

-----------------------------------------------------------------------------
(* data/scrapers/us_federal.rs *)

NumCandidates == 3
U16Max == 65535

Jurisdictions ==
    {<<"Federal", "USA">>, <<"Federal", "Canada">>,
     <<"USState", "California">>, <<"USState", "NewYork">>,
     <<"CanadianProvince", "Ontario">>, <<"CanadianProvince", "BritishColumbia">>}
EntityTypes == {"Individual", "Corporation", "Partnership"}
RequestYears == {0, 2024}

\* What reqwest reports for a request that got no response.
TransportErrors == {"timed out", "connection refused"}
\* What reading the body of a response reports when it fails.
BodyErrors == {"error decoding response body"}
\* Status codes that are not a success.
FailureStatuses == {"404 Not Found", "500 Internal Server Error"}

\* The lowercased text of a p or div element, as the two matchers see it: a
\* sequence of the pieces the conditions and the patterns tell apart.
\*   "pct"        digits followed by %, the digits fitting a u32
\*   "pct_wide"   digits followed by %, the digits beyond a u32
\*   "over"       " for incomes over ", single spaces
\*   "over_spaced" the same words with other white space between them
\*   "usd"        $ followed by digits and commas
\*   "usd_commas" $ followed by commas only
\*   "or_less"    " or less"
\*   "lowest"     "lowest rate is "
Pct(p) == [t |-> "pct", v |-> p]
PctWide == [t |-> "pct_wide", v |-> 0]
Over == [t |-> "over", v |-> 0]
OverSpaced == [t |-> "over_spaced", v |-> 0]
Usd(m) == [t |-> "usd", v |-> m]
UsdCommas == [t |-> "usd_commas", v |-> 0]
OrLess == [t |-> "or_less", v |-> 0]
Lowest == [t |-> "lowest", v |-> 0]

Percentages == {10, 37}
Amounts == {11600, 609350}

Tokens ==
    {Pct(p) : p \in Percentages} \cup {Usd(m) : m \in Amounts}
        \cup {PctWide, Over, OverSpaced, UsdCommas, OrLess, Lowest}

IsPct(tok) == tok.t \in {"pct", "pct_wide"}
IsUsd(tok) == tok.t \in {"usd", "usd_commas"}
\* \s+for\s+incomes\s+over\s+
IsOver(tok) == tok.t \in {"over", "over_spaced"}

\* The fragments the documents of a fetch are made of.
Fragments ==
    {<<>>,
     <<Pct(37), Over, Usd(609350)>>,
     <<Pct(10), Over, Usd(11600)>>,
     <<PctWide, Over, Usd(11600)>>,
     <<Lowest, Pct(10), Usd(11600), OrLess>>,
     <<Lowest, Pct(10), Over, Usd(11600), OrLess>>}

FragmentLists == UNION {[1..n -> Fragments] : n \in 0..MaxFragments}

\* A response body: its fragments, and whether &text[..500.min(text.len())]
\* cuts it at a character boundary.
Documents == [fragments : FragmentLists, sliceable : BOOLEAN]

\* year - 1 on a u16: for year 0 the build decides, a panic (overflow
\* checks on) or a wrap-around (overflow checks off).
YearMinusOne(year) ==
    IF year >= 1 THEN {Some(year - 1)} ELSE {None, Some(U16Max)}

\* The urls vector, lines 51-55.
CandidateUrls(year, previous) ==
    <<[pattern |-> "newsroom/irs-provides-tax-inflation-adjustments-for-tax-year-",
       year |-> year],
      [pattern |-> "pub/irs-drop/rp-", year |-> previous],
      [pattern |-> "newsroom/tax-year-", year |-> year]>>

\* caps[1].parse::<u32>().ok(), then `as f64 / 100.0` and
\* Decimal::from_f64: a u32 divided by 100 has at most 12 significant
\* digits, which the conversion keeps, so the rate is the hundredth of the
\* percentage; rates are held in percent here.
ParsePercent(tok) == IF tok.t = "pct" THEN Some(tok.v) ELSE None

\* extract_number
ExtractNumber(tok) == IF tok.t = "usd" THEN Some(tok.v) ELSE None

\* text.contains("% for incomes over"), line 110.
ContainsOver(text) ==
    \E i \in 1..(Len(text) - 1) : IsPct(text[i]) /\ text[i + 1].t = "over"

\* text.contains("lowest rate is") && text.contains("or less"), line 116.
ContainsLowest(text) ==
    /\ \E i \in 1..Len(text) : text[i].t = "lowest"
    /\ \E i \in 1..Len(text) : text[i].t = "or_less"

\* Where (\d+)%\s+for\s+incomes\s+over\s+\$([0-9,]+) can match.
OverMatches(text) ==
    {i \in 1..(Len(text) - 2) :
        IsPct(text[i]) /\ IsOver(text[i + 1]) /\ IsUsd(text[i + 2])}

\* Where \$([0-9,]+)\s+or\s+less can end a match that began at i.
CeilingsAfter(text, i) ==
    {j \in (i + 1)..(Len(text) - 1) : IsUsd(text[j]) /\ text[j + 1].t = "or_less"}

\* Where (\d+)%.*\$([0-9,]+)\s+or\s+less can match.
LowestMatches(text) ==
    {i \in 1..Len(text) : IsPct(text[i]) /\ CeilingsAfter(text, i) # {}}

Leftmost(S) == CHOOSE i \in S : \A j \in S : i <= j
Rightmost(S) == CHOOSE i \in S : \A j \in S : i >= j

\* parse_rate_text: captures() gives the leftmost match.
ParseRateText(text) ==
    IF OverMatches(text) = {} THEN None
    ELSE LET i == Leftmost(OverMatches(text))
             rate == ParsePercent(text[i])
             lower_bound == ExtractNumber(text[i + 2])
         IN  IF rate = None \/ lower_bound = None THEN None
             ELSE Some([lower_bound |-> lower_bound[1], upper_bound |-> None,
                        rate |-> rate[1]])

\* parse_lowest_rate_text: the leftmost match, its .* greedy.
ParseLowestRateText(text) ==
    IF LowestMatches(text) = {} THEN None
    ELSE LET i == Leftmost(LowestMatches(text))
             j == Rightmost(CeilingsAfter(text, i))
             rate == ParsePercent(text[i])
             upper_bound == ExtractNumber(text[j])
         IN  IF rate = None \/ upper_bound = None THEN None
             ELSE Some([lower_bound |-> 0, upper_bound |-> Some(upper_bound[1]),
                        rate |-> rate[1]])

\* A plausible slip: `else if` between the two tests.
ElementBracketsExclusive(text) ==
    IF ContainsOver(text) THEN ParseRateText(text)
    ELSE IF ContainsLowest(text) THEN ParseLowestRateText(text) ELSE <<>>

\* What one element pushes: the body of the loop, lines 108-120.
ElementBrackets(text) ==
    (IF ContainsOver(text) THEN ParseRateText(text) ELSE <<>>)
        \o (IF ContainsLowest(text) THEN ParseLowestRateText(text) ELSE <<>>)

\* The loop of parse_tax_brackets, lines 107-121.
RECURSIVE CollectBrackets(_)
CollectBrackets(fragments) ==
    IF fragments = <<>> THEN <<>>
    ELSE CollectBrackets(SubSeq(fragments, 1, Len(fragments) - 1))
           \o ElementBrackets(fragments[Len(fragments)])

\* errors/tax_error.rs: a String payload is the sequence of the pieces it
\* was formatted from, the u16 payload of RateNotAvailable is `year`.
ParseError(detail) == [variant |-> "ParseError", detail |-> detail, year |-> 0]
FetchError(detail) == [variant |-> "FetchError", detail |-> detail, year |-> 0]
RateNotAvailable(year) ==
    [variant |-> "RateNotAvailable", detail |-> <<>>, year |-> year]
UnsupportedJurisdiction ==
    [variant |-> "UnsupportedJurisdiction", detail |-> <<>>, year |-> 0]

\* A plausible slip: the emptiness check left to the caller.
ParseTaxBracketsUnchecked(document) ==
    Ok(SortByLowerBound(CollectBrackets(document.fragments)))

\* parse_tax_brackets
ParseTaxBrackets(document) ==
    LET brackets == CollectBrackets(document.fragments)
    IN  IF brackets # <<>>
        THEN Ok(SortByLowerBound(brackets))
        ELSE Err(ParseError(<<"Could not find tax bracket information">>))

\* fetch_rates from the document on, lines 235-241.
ScheduleFromContent(document, tax_year) ==
    LET parsed == ParseTaxBrackets(document)
    IN  IF parsed.kind = "Err" THEN parsed
        ELSE IF parsed.value = <<>> THEN Err(RateNotAvailable(tax_year))
        ELSE Ok(TaxScheduleNew(tax_year, parsed.value))

\* A plausible slip: matching on the jurisdiction alone.
SupportedByJurisdiction(jurisdiction, entity_type) ==
    jurisdiction = <<"Federal", "USA">>

\* The match of fetch_rates, line 233.
Supported(jurisdiction, entity_type) ==
    jurisdiction = <<"Federal", "USA">> /\ entity_type = "Individual"

\* A plausible slip: every federal jurisdiction taken as supported.
supports_any_federal(jurisdiction) == jurisdiction[1] = "Federal"

\* supports_jurisdiction: matches!(jurisdiction, Federal(USA))
supports_jurisdiction(jurisdiction) == jurisdiction = <<"Federal", "USA">>

\* A plausible slip: a candidate that failed is tried again.
SameCandidate(i) == i

\* The for loop moving on to the next url.
NextCandidate(i) == i + 1

\* The text of the FetchError after the loop, lines 83-86.
ExhaustedDetail(err) == <<"Failed to fetch IRS data: ", err>>

\* fetch_rates(jurisdiction, entity_type, tax_year) is called: the match of
\* line 232 and, on the supported arm, the start of fetch_rates_from_irs
\* (the urls, last_error).
FetchRatesCall(jurisdiction, entity_type, tax_year) ==
    /\ fetch_pc = "idle"
    /\ request' = Some([jurisdiction |-> jurisdiction,
                        entity_type |-> entity_type,
                        tax_year |-> tax_year])
    /\ IF Supported(jurisdiction, entity_type)
       THEN \E previous \in YearMinusOne(tax_year) :
               IF previous = None
               THEN /\ fetch_pc' = "panicked"
                    /\ UNCHANGED <<urls, fetch_result>>
               ELSE /\ fetch_pc' = "loop"
                    /\ urls' = CandidateUrls(tax_year, previous[1])
                    /\ UNCHANGED fetch_result
       ELSE /\ fetch_pc' = "done"
            /\ fetch_result' = Some(Err(UnsupportedJurisdiction))
            /\ UNCHANGED urls
    /\ url_idx' = 1
    /\ last_error' = ""
    /\ UNCHANGED <<attempts, content>>

\* fetch_rates called by any caller, with any arguments.
FetchRates ==
    /\ \E jurisdiction \in Jurisdictions, entity_type \in EntityTypes,
          tax_year \in RequestYears :
          FetchRatesCall(jurisdiction, entity_type, tax_year)
    /\ UNCHANGED <<calcVars, cacheVars, mainVars, parseVars>>

\* send() fails: the Err arm, lines 76-79.
SendFails ==
    /\ fetch_pc = "loop"
    /\ url_idx <= Len(urls)
    /\ \E e \in TransportErrors :
          /\ attempts' = Append(attempts,
                [url |-> urls[url_idx], kind |-> "transport", detail |-> e])
          /\ last_error' = e
    /\ url_idx' = NextCandidate(url_idx)
    /\ UNCHANGED <<request, fetch_pc, urls, content, fetch_result>>
    /\ UNCHANGED <<calcVars, cacheVars, mainVars, parseVars>>

\* A response whose status is not a success: line 74.
StatusNotSuccess ==
    /\ fetch_pc = "loop"
    /\ url_idx <= Len(urls)
    /\ \E status \in FailureStatuses :
          attempts' = Append(attempts,
                [url |-> urls[url_idx], kind |-> "status", detail |-> status])
    /\ url_idx' = NextCandidate(url_idx)
    /\ UNCHANGED <<request, fetch_pc, urls, last_error, content, fetch_result>>
    /\ UNCHANGED <<calcVars, cacheVars, mainVars, parseVars>>

\* A response whose status is a success and whose body cannot be read:
\* the `?` of lines 63-66 returns FetchError from fetch_rates_from_irs, and
\* the `?` of line 234 from fetch_rates.
BodyFails ==
    /\ fetch_pc = "loop"
    /\ url_idx <= Len(urls)
    /\ \E e \in BodyErrors :
          /\ attempts' = Append(attempts,
                [url |-> urls[url_idx], kind |-> "body", detail |-> e])
          /\ fetch_result' = Some(Err(FetchError(<<e>>)))
    /\ fetch_pc' = "done"
    /\ UNCHANGED <<request, urls, url_idx, last_error, content>>
    /\ UNCHANGED <<calcVars, cacheVars, mainVars, parseVars>>

\* A response whose status is a success and whose body is read: lines
\* 67-72, then the rest of fetch_rates.
BodyRead ==
    /\ fetch_pc = "loop"
    /\ url_idx <= Len(urls)
    /\ \E document \in Documents :
          /\ attempts' = Append(attempts,
                [url |-> urls[url_idx], kind |-> "success", detail |-> document])
          /\ IF document.sliceable
             THEN /\ content' = Some(document)
                  /\ fetch_result' =
                        Some(ScheduleFromContent(document, request[1].tax_year))
                  /\ fetch_pc' = "done"
             ELSE /\ fetch_pc' = "panicked"
                  /\ UNCHANGED <<content, fetch_result>>
    /\ UNCHANGED <<request, urls, url_idx, last_error>>
    /\ UNCHANGED <<calcVars, cacheVars, mainVars, parseVars>>

\* The loop is over: lines 83-86, and the `?` of line 234.
Exhausted ==
    /\ fetch_pc = "loop"
    /\ url_idx > Len(urls)
    /\ fetch_result' = Some(Err(FetchError(ExhaustedDetail(last_error))))
    /\ fetch_pc' = "done"
    /\ UNCHANGED <<request, urls, url_idx, last_error, attempts, content>>
    /\ UNCHANGED <<calcVars, cacheVars, mainVars, parseVars>>

\* The scraper side at rest: USFederalScraper::new(), no call made.
FetchAtRest ==
    /\ request = None
    /\ fetch_pc = "idle"
    /\ urls = <<>>
    /\ url_idx = 1
    /\ last_error = ""
    /\ attempts = <<>>
    /\ content = None
    /\ fetch_result = None

NextFetch ==
    \/ FetchRates
    \/ SendFails
    \/ StatusNotSuccess
    \/ BodyFails
    \/ BodyRead
    \/ Exhausted

-----------------------------------------------------------------------------
(* The loop body of parse_tax_brackets on every text *)

\* No document is being parsed.
ParseAtRest ==
    /\ element = None
    /\ pushed = None

\* The loop is at an element, its text any text of at most MaxTokens pieces.
InitParse ==
    /\ \E n \in 0..MaxTokens : \E text \in [1..n -> Tokens] : element = Some(text)
    /\ pushed = None

\* The body of the loop for that element, lines 108-120.
ParseElement ==
    /\ element # None
    /\ pushed = None
    /\ pushed' = Some(ElementBrackets(element[1]))
    /\ UNCHANGED element
    /\ UNCHANGED <<calcVars, cacheVars, fetchVars, mainVars>>

-----------------------------------------------------------------------------
(* examples/multi_jurisdiction.rs *)

\* No main is running.
MainAtRest ==
    /\ main_pc = "returned"
    /\ main_result = None
    /\ cache_ops = <<>>

\* MemoryCache::new(Duration::from_secs(3600)), line 10.
MainTtl == 3600

\* main after lines 10-17: the cache and the entity exist.
MainInit ==
    /\ main_pc = "entity_new"
    /\ main_result = None
    /\ cache_ops = <<>>
    /\ InitCacheWith({MainTtl})
    /\ entity = TaxEntityNew("Individual", 100000, 2024)
    /\ brackets_in = <<>>
    /\ schedule = None
    /\ calc_pc = "idle"
    /\ idx = 1
    /\ remaining_income = 0
    /\ total_tax = 0
    /\ examined = 0
    /\ taxed = <<>>
    /\ calc_result = None
    /\ FetchAtRest
    /\ ParseAtRest

\* entity.add_deduction(dec!(12950), DeductionType::Personal), line 19.
MainAddDeduction ==
    /\ main_pc = "entity_new"
    /\ entity' = [entity EXCEPT !.deductions =
                     Append(@, [amount |-> 12950, category |-> "Personal"])]
    /\ main_pc' = "deducted"
    /\ UNCHANGED <<brackets_in, schedule, calc_pc, idx, remaining_income,
                   total_tax, examined, taxed, calc_result>>
    /\ UNCHANGED <<main_result, cache_ops>>
    /\ UNCHANGED <<cacheVars, fetchVars, parseVars>>

\* us_federal_scraper.fetch_rates(&Federal(USA), &entity.entity_type,
\* entity.tax_year), lines 25-30: the next thing main does; no call on
\* `cache` comes before it.
MainFetchRates ==
    /\ main_pc = "deducted"
    /\ FetchRatesCall(<<"Federal", "USA">>, entity.entity_type, entity.tax_year)
    /\ main_pc' = "fetching"
    /\ UNCHANGED <<main_result, cache_ops>>
    /\ UNCHANGED <<calcVars, cacheVars, parseVars>>

\* .await?, line 31: an error returns from main, a schedule is bound to
\* us_schedule.
MainFetched ==
    /\ main_pc = "fetching"
    /\ fetch_pc = "done"
    /\ IF fetch_result[1].kind = "Err"
       THEN /\ main_pc' = "returned"
            /\ main_result' = Some(Err(fetch_result[1].value.variant))
            /\ UNCHANGED <<brackets_in, schedule>>
       ELSE /\ main_pc' = "calculating"
            /\ schedule' = Some(fetch_result[1].value)
            /\ brackets_in' = fetch_result[1].value.brackets
            /\ UNCHANGED main_result
    /\ UNCHANGED <<entity, calc_pc, idx, remaining_income, total_tax,
                   examined, taxed, calc_result>>
    /\ UNCHANGED cache_ops
    /\ UNCHANGED <<cacheVars, fetchVars, parseVars>>

\* Lines 34-38: the `?` on the result of calculate_tax, the println, Ok(()).
MainReturn ==
    /\ main_pc = "calculating"
    /\ calc_pc = "done"
    /\ main_pc' = "returned"
    /\ main_result' =
          Some(IF calc_result[1].kind = "Err"
               THEN Err(calc_result[1].value) ELSE Ok("unit"))
    /\ UNCHANGED cache_ops
    /\ UNCHANGED <<calcVars, cacheVars, fetchVars, parseVars>>

NextMain ==
    \/ MainAddDeduction
    \/ MainFetchRates
    \/ SendFails
    \/ StatusNotSuccess
    \/ BodyFails
    \/ BodyRead
    \/ Exhausted
    \/ MainFetched
    \/ CalcStart
    \/ CalcStep
    \/ CalcReturn
    \/ MainReturn

SpecMain == MainInit /\ [][NextMain]_vars

FetchInit ==
    FetchAtRest /\ CalcAtRest /\ CacheAtRest /\ MainAtRest /\ ParseAtRest

SpecFetch == FetchInit /\ [][NextFetch]_vars

CacheInit ==
    InitCache /\ CalcAtRest /\ FetchAtRest /\ MainAtRest /\ ParseAtRest

SpecCache == CacheInit /\ [][NextCache]_vars

\* The cache used by one caller over keys that differ in one component.
SpecCacheKeys == CacheInit /\ [][NextCacheKeys]_vars

CalcInit ==
    InitCalc /\ CacheAtRest /\ FetchAtRest /\ MainAtRest /\ ParseAtRest

SpecCalc == CalcInit /\ [][NextCalc]_vars

ParseInit ==
    InitParse /\ CalcAtRest /\ CacheAtRest /\ FetchAtRest /\ MainAtRest

SpecParse == ParseInit /\ [][ParseElement]_vars

\* The schedule model alone: construction from every bracket list.
SpecSchedule == CalcInit /\ [][NewSchedule]_vars

-----------------------------------------------------------------------------
(* Properties of the calculator side *)

Done == calc_pc = "done" /\ calc_result # None
SameYear == schedule # None /\ entity.tax_year = schedule[1].tax_year

\* Each bounded bracket ends where the next begins, the first begins at 0
\* and the last is unbounded.
ContiguousFromZero(brs) ==
    /\ Len(brs) >= 1
    /\ brs[1].lower_bound = 0
    /\ \A i \in 1..(Len(brs) - 1) : brs[i].upper_bound = Some(brs[i + 1].lower_bound)
    /\ brs[Len(brs)].upper_bound = None

\* sum over brackets of rate_i * max(0, min(T, upper_i) - lower_i)
RECURSIVE MarginalTax(_, _)
MarginalTax(T, brs) ==
    IF brs = <<>> THEN 0
    ELSE LET b == brs[1]
             top == IF b.upper_bound = None THEN T ELSE Min(T, b.upper_bound[1])
         IN  b.rate * Max(0, top - b.lower_bound)
               + MarginalTax(T, SubSeq(brs, 2, Len(brs)))

ExampleBrackets ==
    <<[lower_bound |-> 0, upper_bound |-> Some(50000), rate |-> 15],
      [lower_bound |-> 50000, upper_bound |-> None, rate |-> 25]>>

IsExample ==
    /\ schedule # None
    /\ schedule[1].brackets = ExampleBrackets
    /\ entity.income = 100000
    /\ Len(entity.deductions) = 1
    /\ entity.deductions[1].amount = 10000
    /\ SameYear

\* C1: for a schedule contiguous from 0, a taxable income T >= 0 and equal
\* tax years, calculate_tax returns the sum over the brackets of
\* rate_i * max(0, min(T, upper_i) - lower_i); the example of the
\* integration test gives 17500 (1750000 hundredths).
C1_MarginalSum ==
    /\ (Done /\ SameYear /\ ContiguousFromZero(schedule[1].brackets)
          /\ entity.income - total_deductions(entity) >= 0)
        => calc_result[1] =
             Ok(MarginalTax(entity.income - total_deductions(entity),
                            schedule[1].brackets))
    /\ (Done /\ IsExample) => calc_result[1] = Ok(1750000)

C1_Witness == Done /\ IsExample /\ calc_result[1] = Ok(1750000)

\* C2: when the total of the deductions is at least the gross income and
\* the tax years are equal, calculate_tax returns Ok(0) whatever the
\* brackets are.
C2_ZeroTax ==
    (Done /\ SameYear /\ total_deductions(entity) >= entity.income)
        => calc_result[1] = Ok(0)

C2_Witness ==
    /\ Done /\ SameYear
    /\ total_deductions(entity) > entity.income
    /\ \E i \in 1..Len(schedule[1].brackets) :
          schedule[1].brackets[i].upper_bound = None
    /\ examined = Len(schedule[1].brackets)
    /\ calc_result[1] = Ok(0)

\* C3: calculate_tax returns Err(YearMismatch) whenever the tax years
\* differ, before any bracket is examined, and never returns an error when
\* they are equal.
C3_YearMismatch ==
    /\ (calc_pc # "idle" /\ entity.tax_year # schedule[1].tax_year)
        => /\ calc_pc = "done"
           /\ calc_result = Some(Err("YearMismatch"))
           /\ examined = 0
    /\ (Done /\ SameYear) => calc_result[1].kind = "Ok"

C3_Witness ==
    /\ Done
    /\ entity.tax_year # schedule[1].tax_year
    /\ Len(schedule[1].brackets) = MaxBrackets
    /\ entity.deductions # <<>>
    /\ calc_result = Some(Err("YearMismatch"))

\* The walk over the brackets has begun.
Walking ==
    \/ calc_pc = "loop"
    \/ calc_pc = "done" /\ calc_result[1].kind = "Ok"

RECURSIVE TaxedIncome(_)
TaxedIncome(ts) ==
    IF ts = <<>> THEN 0
    ELSE ts[1].income + TaxedIncome(SubSeq(ts, 2, Len(ts)))

\* C18: at every step of the walk remaining_income plus the bracket incomes
\* taxed so far is the taxable income; a taxed bracket income is positive
\* and, for a bounded bracket, at most upper - lower; with a taxable income
\* >= 0 remaining_income is never negative and the income taxed never
\* exceeds the taxable income (with a negative one nothing is taxed).
C18_WalkInvariant ==
    Walking =>
        LET T == taxable_income(entity)
            brs == schedule[1].brackets
        IN  /\ remaining_income + TaxedIncome(taxed) = T
            /\ \A k \in 1..Len(taxed) :
                  /\ taxed[k].income > 0
                  /\ brs[taxed[k].index].upper_bound # None
                        => taxed[k].income <=
                             brs[taxed[k].index].upper_bound[1]
                               - brs[taxed[k].index].lower_bound
            /\ T >= 0 => remaining_income >= 0 /\ TaxedIncome(taxed) <= T
            /\ T < 0 => taxed = <<>>

C18_Witness ==
    /\ calc_pc = "done"
    /\ Len(taxed) = 2
    /\ schedule[1].brackets[taxed[1].index].upper_bound # None
    /\ schedule[1].brackets[taxed[2].index].upper_bound # None
    /\ taxed[1].income = schedule[1].brackets[taxed[1].index].upper_bound[1]
                           - schedule[1].brackets[taxed[1].index].lower_bound
    /\ taxed[2].income < schedule[1].brackets[taxed[2].index].upper_bound[1]
                           - schedule[1].brackets[taxed[2].index].lower_bound
    /\ taxed[2].index = 3
    /\ remaining_income = 0

RECURSIVE TaxOf(_, _)
TaxOf(ts, brs) ==
    IF ts = <<>> THEN 0
    ELSE ts[1].income * brs[ts[1].index].rate
           + TaxOf(SubSeq(ts, 2, Len(ts)), brs)

UnboundedAt(brs) == {i \in 1..Len(brs) : brs[i].upper_bound = None}

\* C19: once an unbounded bracket has been processed with a positive
\* remaining income, the remaining income is 0 and no later bracket adds
\* tax: of several unbounded brackets only the first of the schedule, the
\* one with the smallest lower bound, ever contributes, at its own rate, to
\* all the income the bounded brackets before it have left.
C19_FirstUnboundedTakesAll ==
    Walking =>
        LET brs == schedule[1].brackets
            T == taxable_income(entity)
        IN  /\ total_tax = TaxOf(taxed, brs)
            /\ \A k \in 1..Len(taxed) :
                  taxed[k].index \in UnboundedAt(brs)
                    => /\ k = Len(taxed)
                       /\ \A i \in UnboundedAt(brs) :
                             /\ taxed[k].index <= i
                             /\ brs[taxed[k].index].lower_bound
                                   <= brs[i].lower_bound
                       /\ \A j \in 1..(k - 1) :
                             taxed[j].index < taxed[k].index
                       /\ taxed[k].income =
                             T - TaxedIncome(SubSeq(taxed, 1, k - 1))
                       /\ remaining_income = 0
            /\ \A i \in UnboundedAt(brs) :
                  i < idx => remaining_income = Min(T, 0)

C19_Witness ==
    /\ calc_pc = "done"
    /\ Len(schedule[1].brackets) = 3
    /\ UnboundedAt(schedule[1].brackets) = {2, 3}
    /\ schedule[1].brackets[2].lower_bound < schedule[1].brackets[3].lower_bound
    /\ schedule[1].brackets[2].rate # schedule[1].brackets[3].rate
    /\ examined = 3
    /\ Len(taxed) = 2
    /\ taxed[2].index = 2
    /\ taxable_income(entity) > schedule[1].brackets[3].lower_bound
    /\ remaining_income = 0

\* The number of elements of s equal to x.
Count(s, x) == Cardinality({i \in 1..Len(s) : s[i] = x})

IsPermutation(s, t) ==
    /\ Len(s) = Len(t)
    /\ \A i \in 1..Len(s) : Count(s, s[i]) = Count(t, s[i])

NonDecreasing(brs) ==
    \A i \in 1..(Len(brs) - 1) : brs[i].lower_bound <= brs[i + 1].lower_bound

\* C4: TaxSchedule::new accepts every bracket list (overlapping, gapped,
\* empty) and yields a permutation of it in non-decreasing order of
\* lower_bound.
C4_SortedPermutation ==
    /\ schedule = None => ENABLED NewSchedule
    /\ schedule # None
        => /\ IsPermutation(schedule[1].brackets, brackets_in)
           /\ NonDecreasing(schedule[1].brackets)

C4_Witness ==
    /\ schedule # None
    /\ Len(brackets_in) = MaxBrackets
    /\ brackets_in[1].lower_bound > brackets_in[2].lower_bound
    /\ brackets_in[2].lower_bound = brackets_in[3].lower_bound
    /\ brackets_in[2] # brackets_in[3]
    /\ schedule[1].brackets # brackets_in
    /\ schedule[1].brackets[1] = brackets_in[2]

-----------------------------------------------------------------------------
(* Properties of the cache *)

\* C5: a get(k) whose check happens while the latest completed set(k, s)
\* is younger than the TTL returns exactly s, also when that set replaced
\* an entry that had expired.
C5_GetReturnsLatestSet ==
    \A t \in Tasks :
        task[t].pc = "get_checked" =>
            LET latest == last_set[task[t].key[1]]
            IN  (latest # None /\ task[t].clock - latest[1].timestamp < ttl)
                    => task[t].ret[1] = Some(latest[1].schedule)

C5_Witness ==
    \E t \in Tasks :
        /\ task[t].pc = "get_checked"
        /\ last_set[task[t].key[1]] # None
        /\ last_set[task[t].key[1]][1].over_expired
        /\ task[t].ret[1] = Some(last_set[task[t].key[1]][1].schedule)

\* C6: get(k) returns absent exactly when there is no entry for k or the
\* entry's age is >= ttl: an entry of age exactly ttl is absent, and with
\* ttl = 0 no get is ever a hit.
C6_AbsentIffMissingOrExpired ==
    \A t \in Tasks :
        task[t].pc = "get_checked" =>
            LET found == data[task[t].key[1]]
            IN  /\ task[t].ret[1] = None
                    <=> (found = None \/ task[t].clock - found[1].timestamp >= ttl)
                /\ ttl = 0 => task[t].ret[1] = None

C6_Witness ==
    \E t \in Tasks :
        /\ task[t].pc = "get_checked"
        /\ ttl > 0
        /\ data[task[t].key[1]] # None
        /\ task[t].clock - data[task[t].key[1]][1].timestamp = ttl
        /\ task[t].ret[1] = None

\* C13: under every interleaving of gets and sets the store is held by
\* readers or by one writer, never by both; the entry of a key is the entry
\* of one completed set, schedule and timestamp together, and a get returns
\* absent or the schedule of that entry, its age measured from that entry's
\* timestamp.
C13_ReadersOrWriter ==
    /\ writer # None => readers = {}
    /\ \A t \in Tasks :
          /\ task[t].pc = "get_checked" <=> t \in readers
          /\ task[t].pc = "set_locked" <=> writer = Some(t)
    /\ \A k \in CacheKeys :
          data[k] # None
            => /\ last_set[k] # None
               /\ data[k][1] = CacheEntryNew(last_set[k][1].schedule,
                                             last_set[k][1].timestamp)
    /\ \A t \in Tasks :
          (task[t].pc = "get_checked" /\ task[t].ret[1] # None)
            => LET completed == last_set[task[t].key[1]]
               IN  /\ completed # None
                   /\ task[t].ret[1] = Some(completed[1].schedule)
                   /\ task[t].clock - completed[1].timestamp < ttl

C13_Witness ==
    \E t, u \in Tasks :
        /\ task[t].pc = "get_checked"
        /\ task[t].ret[1] # None
        /\ task[u].pc = "set_stamped"
        /\ task[u].key = task[t].key
        /\ task[u].entry[1].schedule # task[t].ret[1][1]
        /\ task[u].entry[1].timestamp < now
        /\ readers = {t}

\* A step of get by task t: the lookup, or the return.
GetStepOf(t) ==
    \/ task[t].pc = "idle" /\ task'[t].pc = "get_checked"
    \/ task[t].pc = "get_checked" /\ task'[t].pc = "idle"

\* The step of set by task t that inserts and returns.
SetReturnsOf(t) == task[t].pc = "set_locked" /\ task'[t].pc = "idle"

\* What C15 says of one step.
C15_Step ==
    /\ \A t \in Tasks : GetStepOf(t) => data' = data
    /\ \A t \in Tasks :
          SetReturnsOf(t)
            => /\ data'[task[t].key[1]] = task[t].entry
               /\ \A k \in AllCacheKeys \ {task[t].key[1]} : data'[k] = data[k]
    /\ \A k \in AllCacheKeys : data[k] # None => data'[k] # None

\* What C15 says of one state: a set that holds the lock can always insert
\* and return, and a get addresses the entry of the last set that was
\* made with the same jurisdiction, entity type and tax year, and only that.
C15_State ==
    \A t \in Tasks :
        /\ task[t].pc = "set_locked" => ENABLED SetInsert(t)
        /\ task[t].pc = "get_checked"
            => /\ data[task[t].key[1]] # None
                    => last_set[task[t].key[1]][1].args = task[t].args[1]
               /\ \A r \in ProbeRequests :
                     r # task[t].args[1] => KeyOf(r) # task[t].key[1]

\* C15: get never changes the store, set(k, s) changes the entry of k only
\* and always returns, no operation removes an entry (the keys present only
\* grow), and two requests address the same entry exactly when their
\* jurisdiction, entity type and tax year are equal.
C15_FrameAndKeys == []C15_State /\ [][C15_Step]_vars

\* An expired entry has been read and is still there, while a request that
\* differs from it in the entity type only finds nothing.
C15_Witness ==
    LET individual == KeyOf(<<<<"Federal", "USA">>, "Individual", 2024>>)
        corporation == KeyOf(<<<<"Federal", "USA">>, "Corporation", 2024>>)
    IN  /\ task[Caller].pc = "get_checked"
        /\ task[Caller].key = Some(corporation)
        /\ task[Caller].ret = Some(None)
        /\ data[corporation] = None
        /\ data[individual] # None
        /\ ttl > 0
        /\ now - data[individual][1].timestamp >= ttl
        /\ Cardinality({k \in AllCacheKeys : data[k] # None}) = 3

\* C17: whatever the interleaving of concurrent sets on a key, an overwrite
\* stores a timestamp that is not earlier than the one of the entry it
\* replaces: the stored timestamp of a key never decreases.
C17_TimestampNeverDecreases ==
    [][\A k \in AllCacheKeys :
          (data[k] # None /\ data'[k] # None)
            => data'[k][1].timestamp >= data[k][1].timestamp]_vars

-----------------------------------------------------------------------------
(* Properties of the fallback fetch *)

SuccessStatus(a) == a.kind \in {"success", "body"}

IsFetchError ==
    /\ fetch_result # None
    /\ fetch_result[1].kind = "Err"
    /\ fetch_result[1].value.variant = "FetchError"

\* C8: every failed candidate, a response that cannot be turned into a
\* document included, makes the loop go on to the next candidate, so that
\* the fetch fails with FetchError only after every candidate has been
\* attempted and none had a success status.
C8_FetchErrorOnlyAfterAll ==
    IsFetchError
        => /\ Len(attempts) = NumCandidates
           /\ \A i \in 1..Len(attempts) : ~SuccessStatus(attempts[i])
           /\ content = None

\* The detail a failed attempt carries: the transport error, or the status.
FailureDetail(a) == a.detail

AllFailed ==
    /\ fetch_pc = "done"
    /\ Len(attempts) = NumCandidates
    /\ \A i \in 1..Len(attempts) : attempts[i].kind \in {"transport", "status"}

\* C9: when all candidates fail, the FetchError carries the failure detail
\* of the last candidate that failed, be it a status that is not a success
\* or a transport error.
C9_LastFailureDetail ==
    AllFailed
        => fetch_result =
             Some(Err(FetchError(ExhaustedDetail(
                 FailureDetail(attempts[Len(attempts)])))))

\* C10: fetch_rates called with a (jurisdiction, entity type) other than
\* (Federal(USA), Individual) returns UnsupportedJurisdiction and no
\* candidate is attempted.
C10_UnsupportedNoFetch ==
    (request # None
       /\ ~(request[1].jurisdiction = <<"Federal", "USA">>
              /\ request[1].entity_type = "Individual"))
        => /\ fetch_pc = "done"
           /\ fetch_result = Some(Err(UnsupportedJurisdiction))
           /\ attempts = <<>>
           /\ urls = <<>>

C10_Witness ==
    /\ request # None
    /\ request[1].jurisdiction = <<"Federal", "USA">>
    /\ request[1].entity_type = "Corporation"
    /\ fetch_result = Some(Err(UnsupportedJurisdiction))
    /\ attempts = <<>>

FetchedOk == fetch_result # None /\ fetch_result[1].kind = "Ok"

\* No pattern matches any fragment of the document.
NothingMatches(document) ==
    \A i \in 1..Len(document.fragments) :
        /\ OverMatches(document.fragments[i]) = {}
        /\ LowestMatches(document.fragments[i]) = {}

\* C11: fetch_rates never returns a schedule without brackets: a schedule
\* it returns has at least one bracket, its brackets in non-decreasing
\* order of lower bound, and the tax year that was requested; a fetched
\* document in which no fragment matches a pattern gives ParseError.
C11_NeverEmptySchedule ==
    /\ FetchedOk
        => /\ Len(fetch_result[1].value.brackets) >= 1
           /\ NonDecreasing(fetch_result[1].value.brackets)
           /\ fetch_result[1].value.tax_year = request[1].tax_year
    /\ (fetch_pc = "done" /\ content # None /\ NothingMatches(content[1]))
        => /\ fetch_result[1].kind = "Err"
           /\ fetch_result[1].value.variant = "ParseError"

C11_Witness ==
    /\ FetchedOk
    /\ Len(content[1].fragments) = 2
    /\ Len(fetch_result[1].value.brackets) = 3
    /\ fetch_result[1].value.brackets[1].lower_bound = 0
    /\ CollectBrackets(content[1].fragments) # fetch_result[1].value.brackets

C11_WitnessNoMatch ==
    /\ fetch_pc = "done"
    /\ content # None
    /\ content[1].fragments # <<>>
    /\ NothingMatches(content[1])
    /\ fetch_result[1].value.variant = "ParseError"

\* C12: no failure aborts the process: for every tax year of the u16 range,
\* 0 included, and every response body, one that cannot be cut after 500
\* bytes included, fetch_rates ends with a schedule or a typed error; it
\* never panics, and year - 1 never overflows.
C12_NeverPanics ==
    /\ fetch_pc # "panicked"
    /\ urls # <<>> => urls[2].year = request[1].tax_year - 1

FailsUnsupported ==
    /\ fetch_pc = "done"
    /\ fetch_result = Some(Err(UnsupportedJurisdiction))

\* C20: supports_jurisdiction and fetch_rates agree: for a jurisdiction that
\* supports_jurisdiction accepts, fetch_rates does not fail with
\* UnsupportedJurisdiction whatever the entity type and the year, and for
\* one that it rejects, fetch_rates fails with UnsupportedJurisdiction.
C20_SupportsAgreesWithFetch ==
    request # None
        => IF supports_jurisdiction(request[1].jurisdiction)
           THEN ~FailsUnsupported
           ELSE FailsUnsupported

\* C20 as it holds: they agree for the entity type Individual; for any
\* other entity type fetch_rates fails with UnsupportedJurisdiction also
\* when supports_jurisdiction accepts the jurisdiction.
C20_SupportsAgreesForIndividual ==
    request # None
        => IF /\ supports_jurisdiction(request[1].jurisdiction)
              /\ request[1].entity_type = "Individual"
           THEN ~FailsUnsupported
           ELSE FailsUnsupported

C20_Witness ==
    /\ request # None
    /\ supports_jurisdiction(request[1].jurisdiction)
    /\ request[1].entity_type = "Partnership"
    /\ request[1].tax_year = 2024
    /\ FailsUnsupported

-----------------------------------------------------------------------------
(* Properties of the extraction *)

\* The matcher of the 'rate for incomes over a floor' pattern matches the
\* text: the phrase is there, and the first place where the pattern
\* matches gives a percentage and a floor that can be read as numbers.
OverMatcherMatches(text) ==
    /\ ContainsOver(text)
    /\ OverMatches(text) # {}
    /\ text[Leftmost(OverMatches(text))].t = "pct"
    /\ text[Leftmost(OverMatches(text)) + 2].t = "usd"

\* The same for the 'lowest rate ... ceiling or less' pattern.
LowestMatcherMatches(text) ==
    /\ ContainsLowest(text)
    /\ LowestMatches(text) # {}
    /\ LET i == Leftmost(LowestMatches(text))
       IN  /\ text[i].t = "pct"
           /\ text[Rightmost(CeilingsAfter(text, i))].t = "usd"

Unbounded(brs) == {k \in 1..Len(brs) : brs[k].upper_bound = None}
Bounded(brs) == {k \in 1..Len(brs) : brs[k].upper_bound # None}

\* C16: every fragment is tested against both patterns, one independently
\* of the other, and contributes at most one bracket per pattern: a match
\* of the 'over' pattern a bracket from the captured floor upwards, without
\* upper bound, a match of the 'lowest' pattern a bracket from 0 to the
\* captured ceiling, each at the captured percentage divided by 100.
C16_OneBracketPerPattern ==
    pushed # None =>
        LET text == element[1]
            out == pushed[1]
        IN  /\ Cardinality(Unbounded(out)) <= 1
            /\ Cardinality(Bounded(out)) <= 1
            /\ Unbounded(out) # {} <=> OverMatcherMatches(text)
            /\ Bounded(out) # {} <=> LowestMatcherMatches(text)
            /\ \A k \in Unbounded(out) :
                  \E i \in OverMatches(text) :
                      /\ out[k].lower_bound = text[i + 2].v
                      /\ out[k].rate = text[i].v
            /\ \A k \in Bounded(out) :
                  /\ out[k].lower_bound = 0
                  /\ \E i \in LowestMatches(text) :
                        \E j \in CeilingsAfter(text, i) :
                            /\ out[k].upper_bound = Some(text[j].v)
                            /\ out[k].rate = text[i].v

C16_Witness ==
    /\ element = Some(<<Lowest, Pct(10), Over, Usd(11600), OrLess>>)
    /\ pushed = Some(<<[lower_bound |-> 11600, upper_bound |-> None, rate |-> 10],
                       [lower_bound |-> 0, upper_bound |-> Some(11600),
                        rate |-> 10]>>)

-----------------------------------------------------------------------------
(* Properties of the composition in main *)

\* C14: resolving a schedule consults the cache first: a fetch from the
\* rate source is invoked only after a get on the cache for the requested
\* (jurisdiction, entity type, tax year) has come back absent.
C14_CacheBeforeFetch ==
    fetch_pc # "idle"
        => /\ cache_ops # <<>>
           /\ cache_ops[Len(cache_ops)].op = "get"
           /\ cache_ops[Len(cache_ops)].key =
                 CacheKeyNew(request[1].jurisdiction, request[1].entity_type,
                             request[1].tax_year)
           /\ cache_ops[Len(cache_ops)].ret = None

=============================================================================
